---- MODULE Spec2Model ----
(***************************************************************************)
(* The telemetry-to-position pipeline of the heatmap generator:            *)
(* processing.get_user_position with the helpers of preprocessing.py, and  *)
(* the time-bucket labelling of main.main.                                 *)
(*                                                                         *)
(* pandas tables are modelled as sets of rows that carry the identity of   *)
(* the source row they were made from (pandas rows are positions in a      *)
(* table, so two rows with equal cells stay two rows).  A missing cell is  *)
(* NaN.  JSON documents are trees of Dict and Leaf nodes.                  *)
(***************************************************************************)
EXTENDS Integers, Sequences, FiniteSets, TLC

VARIABLES
    pc,                    \* position in get_user_position / main
    err,                   \* the exception that ended the call, or "none"
    puuid,                 \* identity returned by api.get_puuid
    matchs,                \* match ids returned by api.get_matchids
    timeline,              \* documents returned by api.get_match_timeline
    df_participantId,      \* table_participant_id(timeline)
    df,                    \* the long table of get_user_position
    df_position,           \* the pivoted table
    table_position_puuid,  \* the table get_user_position returns
    table,                 \* main's table, with its Time column
    shown                  \* the tables main has passed to construct_image

vars == <<pc, err, puuid, matchs, timeline, df_participantId, df,
          df_position, table_position_puuid, table, shown>>

----------------------------------------------------------------------------
(* Bounds of the explored inputs.                                          *)

MaxMatches == 2
MaxRoster == 2
MaxFrames == 1

----------------------------------------------------------------------------
(* Cells and JSON values.                                                  *)

NaN == [nan |-> TRUE]
JInt(n) == [int |-> n]
JStr(s) == [str |-> s]
IsNaN(c) == "nan" \in DOMAIN c

Leaf(v) == [leaf |-> v]
Dict(f) == [dict |-> f]
IsDict(node) == "dict" \in DOMAIN node

EmptyTable == [columns |-> {}, rows |-> {}]

----------------------------------------------------------------------------
(* preprocessing.norma_x, norma_y.  Python's "/" is modelled as exact      *)
(* division: a result is the fraction num/den in lowest terms.             *)

RECURSIVE GCD(_, _)
GCD(a, b) == IF b = 0 THEN a ELSE GCD(b, a % b)

Abs(n) == IF n < 0 THEN -n ELSE n

Ratio(n, d) ==
    LET g == GCD(Abs(n), d)
    IN  [num |-> n \div g, den |-> d \div g]

Less(a, b) == a.num * b.den < b.num * a.den

Minus(a, b) == Ratio(a.num * b.den - b.num * a.den, a.den * b.den)

norma_x_no_offset(X) ==
    IF IsNaN(X) THEN NaN
    ELSE Ratio(10 * (14700 - 0) + (X.int * (800 - 0)), 14700 - 0)

norma_x(X) ==
    IF IsNaN(X) THEN NaN
    ELSE Ratio(10 * (14700 - 0) + ((X.int - 335) * (800 - 0)), 14700 - 0)

norma_y(Y) ==
    IF IsNaN(Y) THEN NaN
    ELSE Ratio(10 * (14700 - 0) + ((Y.int - 335) * (800 - 0)), 14700 - 0)

----------------------------------------------------------------------------
(* pandas.json_normalize: the records under record_path, each flattened    *)
(* into dotted column names (a name is the sequence of its segments).      *)

RECURSIVE nested_to_record(_, _)
nested_to_record(node, prefix) ==
    IF IsDict(node)
    THEN UNION { nested_to_record(node.dict[k], Append(prefix, k)) :
                 k \in DOMAIN node.dict }
    ELSE { [path |-> prefix, value |-> node.leaf] }

CellOf(record, path) ==
    IF \E l \in record : l.path = path
    THEN (CHOOSE l \in record : l.path = path).value
    ELSE NaN

RosterIds(tl) ==
    UNION { { <<d, i>> : i \in 1..Len(tl[d].info.participants) } :
            d \in 1..Len(tl) }

FrameIds(tl) ==
    UNION { { <<d, i>> : i \in 1..Len(tl[d].info.frames) } :
            d \in 1..Len(tl) }

RosterEntry(tl, id) == tl[id[1]].info.participants[id[2]]

Get(entry, key) == IF key \in DOMAIN entry THEN entry[key] ELSE NaN

----------------------------------------------------------------------------
(* preprocessing.table_participant_id.                                     *)

KeyError == [error |-> "KeyError"]
ValueError == [error |-> "ValueError"]
IsError(r) == "error" \in DOMAIN r

(* The dtype pandas gives the participantId column: integers with a gap    *)
(* become floats, any string makes the column object.                      *)
PidDtype(tl) ==
    LET cells == { Get(RosterEntry(tl, id), "participantId") : id \in RosterIds(tl) }
    IN  IF \E c \in cells : "str" \in DOMAIN c THEN "object"
        ELSE IF NaN \in cells THEN "float64"
        ELSE "int64"

astype_str(c, dtype) ==
    IF IsNaN(c) THEN "nan"
    ELSE IF "str" \in DOMAIN c THEN c.str
    ELSE IF dtype = "float64" THEN ToString(c.int) \o ".0"
    ELSE ToString(c.int)

table_participant_id(tl) ==
    LET columns == UNION { DOMAIN RosterEntry(tl, id) : id \in RosterIds(tl) }
                   \cup {"metadata"}
    IN  IF "participantId" \notin columns THEN KeyError
        ELSE [columns |-> columns \cup {"matchId"},
              rows |-> { [id |-> id,
                          matchId |-> tl[id[1]].metadata.matchId,
                          participantId |->
                              astype_str(Get(RosterEntry(tl, id), "participantId"),
                                         PidDtype(tl)),
                          puuid |-> Get(RosterEntry(tl, id), "puuid")] :
                         id \in RosterIds(tl) }]

----------------------------------------------------------------------------
(* The regular expression (\w+)\.(\w+)\.(\w+)\.(.+) of str.extract, which  *)
(* searches the name for its leftmost match.  Segments hold no dot; a      *)
(* segment is a word (\w+) unless it is empty or is NonWordSegment, whose  *)
(* longest word suffix is "b".                                             *)

NonWordSegment == "a-b"
IsWord(s) == s # "" /\ s # NonWordSegment
TrailingWord(s) == IF s = NonWordSegment THEN "b" ELSE s

RECURSIVE JoinDots(_)
JoinDots(segs) ==
    IF Len(segs) = 0 THEN ""
    ELSE IF Len(segs) = 1 THEN segs[1]
    ELSE segs[1] \o "." \o JoinDots(Tail(segs))

MatchAt(name, i) ==
    /\ i + 3 <= Len(name)
    /\ TrailingWord(name[i]) # ""
    /\ IsWord(name[i + 1])
    /\ IsWord(name[i + 2])
    /\ JoinDots(SubSeq(name, i + 3, Len(name))) # ""

str_extract_anchored(name) ==
    IF Len(name) = 4 /\ \A i \in 1..4 : IsWord(name[i])
    THEN [matched |-> TRUE, frames |-> name[1], participantId |-> name[2],
          metric |-> name[3], metric2 |-> name[4]]
    ELSE [matched |-> FALSE]

str_extract(name) ==
    IF \E i \in 1..Len(name) : MatchAt(name, i)
    THEN LET i == CHOOSE j \in 1..Len(name) :
                      MatchAt(name, j) /\ \A k \in 1..(j - 1) : ~MatchAt(name, k)
         IN  [matched |-> TRUE,
              frames |-> TrailingWord(name[i]),
              participantId |-> name[i + 1],
              metric |-> name[i + 2],
              metric2 |-> JoinDots(SubSeq(name, i + 3, Len(name)))]
    ELSE [matched |-> FALSE]

----------------------------------------------------------------------------
(* json_normalize(record_path=["info", "frames"], meta=["metadata"]),      *)
(* melt(["timestamp", "matchId"]), str.extract and dropna(["frames"]):     *)
(* the statements of preprocessing.table_frames, which                     *)
(* processing.get_user_position repeats inline.                            *)

FrameRecord(tl, id) == nested_to_record(tl[id[1]].info.frames[id[2]], <<>>)

(* The columns of the normalized table: every leaf path of every frame of  *)
(* every match, and the meta column.                                       *)
FrameColumns(tl) ==
    UNION { { l.path : l \in FrameRecord(tl, id) } : id \in FrameIds(tl) }
    \cup { <<"metadata">> }

MetadataCell(tl, id) == [obj |-> tl[id[1]].metadata.matchId]

(* melt: one row per frame and per column that is not an id column; the    *)
(* value is missing where the frame has no such leaf.                      *)
melt(tl) ==
    LET columns == FrameColumns(tl) \ { <<"timestamp">> }
    IN  UNION { LET record == FrameRecord(tl, id)
                    ts == CellOf(record, <<"timestamp">>)
                IN  { [id |-> <<id, c>>,
                       timestamp |-> ts,
                       matchId |-> tl[id[1]].metadata.matchId,
                       variable |-> c,
                       value |-> IF c = <<"metadata">> THEN MetadataCell(tl, id)
                                 ELSE CellOf(record, c)] : c \in columns } :
                id \in FrameIds(tl) }

Event(r, m) ==
    [id |-> r.id,
     timestamp |-> r.timestamp,
     matchId |-> r.matchId,
     frames |-> m.frames,
     participantId |-> m.participantId,
     metric |-> m.metric,
     metric2 |-> m.metric2,
     value |-> r.value]

(* str.extract, then dropna(subset=["frames"]).                            *)
Extracted(rows) ==
    UNION { LET m == str_extract(r.variable)
            IN  IF m.matched THEN { Event(r, m) } ELSE {} : r \in rows }

FlattenFrames(tl) ==
    IF <<"timestamp">> \notin FrameColumns(tl) THEN KeyError
    ELSE [columns |-> {"timestamp", "matchId", "frames", "participantId",
                       "metric", "metric2", "value"},
          rows |-> Extracted(melt(tl))]

table_frames(timelines) == FlattenFrames(timelines)

----------------------------------------------------------------------------
(* processing.get_user_position, line by line.                             *)

(* DataFrame.merge(df_participantId, "left", on=["participantId",          *)
(* "matchId"]): one row per matching index row, or one row with the        *)
(* index's columns missing.                                                *)
Joined(e, i_id, i_puuid) ==
    [id |-> <<e.id, i_id>>,
     timestamp |-> e.timestamp,
     matchId |-> e.matchId,
     frames |-> e.frames,
     participantId |-> e.participantId,
     metric |-> e.metric,
     metric2 |-> e.metric2,
     value |-> e.value,
     puuid |-> i_puuid]

MergeKeysAny(e, i) == e.participantId = i.participantId

MergeKeys(e, i) == e.participantId = i.participantId /\ e.matchId = i.matchId

merge(left, right) ==
    [columns |-> left.columns \cup right.columns,
     rows |-> UNION { IF \E i \in right.rows : MergeKeys(e, i)
                      THEN { Joined(e, i.id, i.puuid) :
                             i \in { j \in right.rows : MergeKeys(e, j) } }
                      ELSE { Joined(e, <<>>, NaN) } :
                      e \in left.rows }]

(* DataFrame.pivot(index=["puuid", "matchId", "timestamp"],                *)
(* columns="metric2", values="value"): one row per index tuple (a NaN      *)
(* puuid is an index value like any other), one column per metric2, NaN    *)
(* where the tuple has no row for the column; two rows for one cell are a  *)
(* ValueError.                                                             *)
SameCell(r, q) ==
    /\ r.puuid = q.puuid
    /\ r.matchId = q.matchId
    /\ r.timestamp = q.timestamp
    /\ r.metric2 = q.metric2

pivot(tab) ==
    LET pos == { r \in tab.rows : r.metric = "position" }
        columns == { r.metric2 : r \in pos }
        keys == { [puuid |-> r.puuid, matchId |-> r.matchId,
                   timestamp |-> r.timestamp] : r \in pos }
        Cell(k, c) ==
            LET at == { r \in pos : /\ r.puuid = k.puuid
                                    /\ r.matchId = k.matchId
                                    /\ r.timestamp = k.timestamp
                                    /\ r.metric2 = c }
            IN  IF at = {} THEN NaN ELSE (CHOOSE r \in at : TRUE).value
    IN  IF "puuid" \notin tab.columns THEN KeyError
        ELSE IF \E r \in pos, q \in pos : r.id # q.id /\ SameCell(r, q)
        THEN ValueError
        ELSE [columns |-> columns,
              rows |-> { [puuid |-> k.puuid, matchId |-> k.matchId,
                          timestamp |-> k.timestamp,
                          cells |-> [c \in columns |-> Cell(k, c)]] :
                         k \in keys }]

(* df_position.loc[puuid]                                                  *)
loc(tab, key) ==
    LET sel == { r \in tab.rows : r.puuid = JStr(key) }
    IN  IF sel = {} THEN KeyError
        ELSE [columns |-> tab.columns,
              rows |-> { [matchId |-> r.matchId, timestamp |-> r.timestamp,
                          cells |-> r.cells] : r \in sel }]

(* table["x"] = table["x"].apply(norma_x); table["y"] = ...apply(norma_y)  *)
apply_norma(tab) ==
    IF "x" \notin tab.columns \/ "y" \notin tab.columns THEN KeyError
    ELSE [columns |-> tab.columns,
          rows |-> { [matchId |-> r.matchId, timestamp |-> r.timestamp,
                      cells |-> [c \in tab.columns |->
                                    IF c = "x" THEN norma_x(r.cells[c])
                                    ELSE IF c = "y" THEN norma_y(r.cells[c])
                                    ELSE r.cells[c]]] :
                     r \in tab.rows }]

----------------------------------------------------------------------------
(* The documents the retrieval collaborator may return.                    *)

Puuids == {"P", "Q"}
RosterPids == {1, 2}
FramePids == {1, 2, 3}

(* How a participant's snapshot may hold its position: both coordinates,   *)
(* x alone, or no position key.  Only participant 1 reports incomplete     *)
(* snapshots.                                                              *)
Positions(p) == IF p = 1 THEN {"xy", "x", "none"} ELSE {"xy"}

MatchId(d) == "M" \o ToString(d)
Timestamp(i) == 60000 * i

(* Raw world coordinates: a different value at every leaf of the input.    *)
Coordinate(d, i, p, axis) ==
    1000 * p + 100 * d + 10 * i + (IF axis = "y" THEN 5 ELSE 0)

RECURSIVE SeqsUpTo(_, _)
SeqsUpTo(S, n) ==
    IF n = 0 THEN { <<>> }
    ELSE SeqsUpTo(S, n - 1) \cup
         { Append(q, e) : q \in { r \in SeqsUpTo(S, n - 1) : Len(r) = n - 1 },
                          e \in S }

RosterEntries ==
    { ("participantId" :> JInt(p)) @@ ("puuid" :> JStr(u)) :
      p \in RosterPids, u \in Puuids }

(* Rosters list their participants by ascending participantId.             *)
Rosters ==
    { r \in SeqsUpTo(RosterEntries, MaxRoster) :
      \A i \in 1..(Len(r) - 1) :
          r[i]["participantId"].int <= r[i + 1]["participantId"].int }

Snapshot(d, i, p, shape) ==
    Dict(("level" :> Leaf(JInt(1))) @@
         (IF shape = "xy"
          THEN "position" :> Dict(("x" :> Leaf(JInt(Coordinate(d, i, p, "x")))) @@
                                  ("y" :> Leaf(JInt(Coordinate(d, i, p, "y")))))
          ELSE IF shape = "x"
          THEN "position" :> Dict("x" :> Leaf(JInt(Coordinate(d, i, p, "x"))))
          ELSE <<>>))

(* A frame's participant map: which participants report, and in what shape. *)
ParticipantMaps ==
    UNION { { pm \in [ps -> {"xy", "x", "none"}] :
              \A p \in ps : pm[p] \in Positions(p) } :
            ps \in SUBSET FramePids }

Frame(d, i, pm) ==
    Dict(("timestamp" :> Leaf(JInt(Timestamp(i)))) @@
         ("events" :> Leaf([obj |-> "events"])) @@
         ("participantFrames" :>
             Dict([k \in { ToString(p) : p \in DOMAIN pm } |->
                     Snapshot(d, i, CHOOSE p \in DOMAIN pm : ToString(p) = k,
                              pm[CHOOSE p \in DOMAIN pm : ToString(p) = k])])))

FrameLists(d) ==
    { [i \in 1..Len(pms) |-> Frame(d, i, pms[i])] :
      pms \in SeqsUpTo(ParticipantMaps, MaxFrames) \ { <<>> } }

Documents(d) ==
    { [metadata |-> [matchId |-> MatchId(d)],
       info |-> [participants |-> r, frames |-> fs]] :
      r \in Rosters, fs \in FrameLists(d) }

----------------------------------------------------------------------------
(* get_user_position as a sequence of steps.                               *)

Init ==
    /\ pc = "get_puuid"
    /\ err = "none"
    /\ puuid = ""
    /\ matchs = <<>>
    /\ timeline = <<>>
    /\ df_participantId = EmptyTable
    /\ df = EmptyTable
    /\ df_position = EmptyTable
    /\ table_position_puuid = EmptyTable
    /\ table = EmptyTable
    /\ shown = <<>>

Raise(e) ==
    /\ pc' = "raised"
    /\ err' = e.error

GetPuuid ==
    /\ pc = "get_puuid"
    /\ puuid' = "P"
    /\ pc' = "get_matchids"
    /\ UNCHANGED <<err, matchs, timeline, df_participantId, df, df_position,
                   table_position_puuid, table, shown>>

GetMatchIds ==
    /\ pc = "get_matchids"
    /\ \E n \in 0..MaxMatches : matchs' = [d \in 1..n |-> MatchId(d)]
    /\ pc' = "get_match_timeline"
    /\ UNCHANGED <<err, puuid, timeline, df_participantId, df, df_position,
                   table_position_puuid, table, shown>>

GetMatchTimeline ==
    /\ pc = "get_match_timeline"
    /\ Len(timeline) < Len(matchs)
    /\ \E doc \in Documents(Len(timeline) + 1) : timeline' = Append(timeline, doc)
    /\ UNCHANGED <<pc, err, puuid, matchs, df_participantId, df, df_position,
                   table_position_puuid, table, shown>>

TableParticipantId ==
    /\ pc = "get_match_timeline"
    /\ Len(timeline) = Len(matchs)
    /\ LET r == table_participant_id(timeline)
       IN  IF IsError(r)
           THEN Raise(r) /\ UNCHANGED df_participantId
           ELSE /\ df_participantId' = r
                /\ pc' = "flatten"
                /\ UNCHANGED err
    /\ UNCHANGED <<puuid, matchs, timeline, df, df_position, table_position_puuid,
                   table, shown>>

Flatten ==
    /\ pc = "flatten"
    /\ LET r == FlattenFrames(timeline)
       IN  IF IsError(r)
           THEN Raise(r) /\ UNCHANGED df
           ELSE /\ df' = r
                /\ pc' = "merge"
                /\ UNCHANGED err
    /\ UNCHANGED <<puuid, matchs, timeline, df_participantId, df_position,
                   table_position_puuid, table, shown>>

Merge ==
    /\ pc = "merge"
    /\ df' = merge(df, df_participantId)
    /\ pc' = "pivot"
    /\ UNCHANGED <<err, puuid, matchs, timeline, df_participantId, df_position,
                   table_position_puuid, table, shown>>

Pivot ==
    /\ pc = "pivot"
    /\ LET r == pivot(df)
       IN  IF IsError(r)
           THEN Raise(r) /\ UNCHANGED df_position
           ELSE /\ df_position' = r
                /\ pc' = "loc"
                /\ UNCHANGED err
    /\ UNCHANGED <<puuid, matchs, timeline, df_participantId, df,
                   table_position_puuid, table, shown>>

Loc ==
    /\ pc = "loc"
    /\ LET r == loc(df_position, puuid)
       IN  IF IsError(r)
           THEN Raise(r) /\ UNCHANGED table_position_puuid
           ELSE /\ table_position_puuid' = r
                /\ pc' = "norma"
                /\ UNCHANGED err
    /\ UNCHANGED <<puuid, matchs, timeline, df_participantId, df, df_position,
                   table, shown>>

Norma ==
    /\ pc = "norma"
    /\ LET r == apply_norma(table_position_puuid)
       IN  IF IsError(r)
           THEN Raise(r) /\ UNCHANGED table_position_puuid
           ELSE /\ table_position_puuid' = r
                /\ pc' = "done"
                /\ UNCHANGED err
    /\ UNCHANGED <<puuid, matchs, timeline, df_participantId, df, df_position,
                   table, shown>>

Next ==
    \/ GetPuuid
    \/ GetMatchIds
    \/ GetMatchTimeline
    \/ TableParticipantId
    \/ Flatten
    \/ Merge
    \/ Pivot
    \/ Loc
    \/ Norma

Spec == Init /\ [][Next]_vars

----------------------------------------------------------------------------
(* What a call returns, as one function of the documents and the identity: *)
(* the steps above composed, an error ending the call where it is raised.  *)

get_user_position(tl, key) ==
    LET index == table_participant_id(tl)
        events == FlattenFrames(tl)
    IN  IF IsError(index) THEN index
        ELSE IF IsError(events) THEN events
        ELSE LET wide == pivot(merge(events, index))
             IN  IF IsError(wide) THEN wide
                 ELSE LET mine == loc(wide, key)
                      IN  IF IsError(mine) THEN mine ELSE apply_norma(mine)

----------------------------------------------------------------------------
(* The input read directly, for stating the claims.                        *)

RECURSIVE LeafAt(_, _)
LeafAt(node, path) ==
    IF Len(path) = 0
    THEN IF IsDict(node) THEN NaN ELSE node.leaf
    ELSE IF IsDict(node) /\ Head(path) \in DOMAIN node.dict
         THEN LeafAt(node.dict[Head(path)], Tail(path))
         ELSE NaN

HasLeaf(node, path) == LeafAt(node, path) # NaN

DocsOf(m) == { d \in 1..Len(timeline) : timeline[d].metadata.matchId = m }

FramesAt(d, ts) ==
    { i \in 1..Len(timeline[d].info.frames) :
      LeafAt(timeline[d].info.frames[i], <<"timestamp">>) = ts }

PositionPath(p, axis) == <<"participantFrames", p, "position", axis>>

(* The participantId strings that the roster of document d gives to `key`. *)
PidsOf(d, key) ==
    { ToString(e["participantId"].int) :
      e \in { timeline[d].info.participants[k] :
              k \in { j \in 1..Len(timeline[d].info.participants) :
                      Get(timeline[d].info.participants[j], "puuid") = JStr(key) } } }

RosterPidsOf(d) ==
    { ToString(timeline[d].info.participants[k]["participantId"].int) :
      k \in 1..Len(timeline[d].info.participants) }

ReportsPosition(d, i, p) ==
    \/ HasLeaf(timeline[d].info.frames[i], PositionPath(p, "x"))
    \/ HasLeaf(timeline[d].info.frames[i], PositionPath(p, "y"))

Returned == pc = "done"
Failed == pc = "raised"

OutputRows == table_position_puuid.rows
IsNumber(c) == "num" \in DOMAIN c
AfterMerge == pc \in {"pivot", "loc", "norma", "done"}

(* The documents with every participant that has no roster entry in its    *)
(* own match removed from the frames.                                      *)
StripFrame(frame, keep) ==
    Dict([k \in DOMAIN frame.dict |->
            IF k = "participantFrames"
            THEN Dict([p \in (DOMAIN frame.dict[k].dict) \cap keep |->
                         frame.dict[k].dict[p]])
            ELSE frame.dict[k]])

Strip(tl) ==
    [d \in 1..Len(tl) |->
        [metadata |-> tl[d].metadata,
         info |-> [participants |-> tl[d].info.participants,
                   frames |-> [i \in 1..Len(tl[d].info.frames) |->
                                 StripFrame(tl[d].info.frames[i], RosterPidsOf(d))]]]]

Coordinates(tab) ==
    { [matchId |-> r.matchId, timestamp |-> r.timestamp,
       x |-> r.cells["x"], y |-> r.cells["y"]] : r \in tab.rows }

TargetOnRoster == \E d \in 1..Len(timeline) : PidsOf(d, puuid) # {}

NoTargetPosition ==
    \A d \in 1..Len(timeline) : \A i \in 1..Len(timeline[d].info.frames) :
        \A p \in PidsOf(d, puuid) : ~ReportsPosition(d, i, p)

(* Every participant of every frame has exactly one roster entry in its    *)
(* own match, and no player is listed twice in a roster.                   *)
RostersCoverFrames ==
    \A d \in 1..Len(timeline) :
        /\ \A i \in 1..Len(timeline[d].info.frames) :
              IsDict(timeline[d].info.frames[i].dict["participantFrames"]) /\
              DOMAIN timeline[d].info.frames[i].dict["participantFrames"].dict
                  \subseteq RosterPidsOf(d)
        /\ \A j \in 1..Len(timeline[d].info.participants) :
              \A k \in 1..Len(timeline[d].info.participants) :
                 j # k => /\ timeline[d].info.participants[j]["participantId"]
                              # timeline[d].info.participants[k]["participantId"]
                          /\ timeline[d].info.participants[j]["puuid"]
                              # timeline[d].info.participants[k]["puuid"]

DuplicateIndexKey ==
    \E i \in df_participantId.rows, j \in df_participantId.rows :
        /\ i.id # j.id
        /\ i.matchId = j.matchId
        /\ i.participantId = j.participantId

----------------------------------------------------------------------------
(* Claims about get_user_position, checked under Spec.                     *)

(* C1: every row of the returned table has both x and y present and       *)
(* numeric; a group whose x or y is missing produces no output row.       *)
C1_RowsComplete ==
    Returned => \A r \in OutputRows :
                    IsNumber(r.cells["x"]) /\ IsNumber(r.cells["y"])

(* C2: every returned row at (M, t) carries the position of a participant *)
(* that M's own roster maps to the target; an event whose (M, p) pair has *)
(* no roster entry gets no identity, and no event is given the target's   *)
(* identity by another match's roster.                                    *)
C2_Attribution ==
    /\ AfterMerge =>
         \A r \in df.rows :
            /\ r.puuid = JStr(puuid) =>
                 \E d \in DocsOf(r.matchId) : r.participantId \in PidsOf(d, puuid)
            /\ (\A d \in DocsOf(r.matchId) : r.participantId \notin RosterPidsOf(d))
                 => IsNaN(r.puuid)
    /\ Returned =>
         \A r \in OutputRows :
            \E d \in DocsOf(r.matchId) :
               \E i \in FramesAt(d, r.timestamp), p \in PidsOf(d, puuid) :
                  /\ r.cells["x"] =
                       norma_x(LeafAt(timeline[d].info.frames[i], PositionPath(p, "x")))
                  /\ r.cells["y"] =
                       norma_y(LeafAt(timeline[d].info.frames[i], PositionPath(p, "y")))

(* Two matches are returned, participant "1" is the target in one and     *)
(* another player, who reports a position, in the other.                  *)
C2_Witness ==
    /\ Returned
    /\ \E d1 \in 1..Len(timeline), d2 \in 1..Len(timeline) :
          /\ d1 # d2
          /\ "1" \in PidsOf(d1, puuid)
          /\ "1" \in PidsOf(d2, "Q") /\ "1" \notin PidsOf(d2, puuid)
          /\ ReportsPosition(d2, 1, "1")
          /\ \E r \in OutputRows : r.matchId = MatchId(d1) /\ IsNumber(r.cells["x"])
          /\ \E r \in OutputRows : r.matchId = MatchId(d2) /\ IsNumber(r.cells["x"])

(* C3: when no position event belongs to the target player, the call      *)
(* returns a table with zero rows and raises no error (stated for inputs  *)
(* whose rosters are otherwise sound, so that nothing else can fail).     *)
C3_EmptyNotError ==
    (/\ Returned \/ Failed
     /\ TargetOnRoster
     /\ RostersCoverFrames
     /\ NoTargetPosition)
    => (Returned /\ OutputRows = {})

(* C4: events with no roster entry are absorbed: the call does not fail   *)
(* because of them and returns the target's rows as it would without      *)
(* them.                                                                  *)
C4_UnmatchedAbsorbed ==
    /\ Failed => IsError(get_user_position(Strip(timeline), puuid))
    /\ Returned =>
         LET without == get_user_position(Strip(timeline), puuid)
         IN  ~IsError(without) /\ Coordinates(without) = Coordinates(table_position_puuid)

(* C5: with two index entries for one (matchId, participantId) key the    *)
(* call ends in an error and returns no table.                            *)
C5_DuplicateSurfaced ==
    Returned => ~DuplicateIndexKey

(* C9: a frame yields events only for the leaves of its own participant   *)
(* map, so the output has a row at (M, t) only if the target reported a   *)
(* position in that frame.                                                *)
C9_OwnLeavesOnly ==
    /\ pc = "merge" =>
         \A e \in df.rows :
            HasLeaf(timeline[e.id[1][1]].info.frames[e.id[1][2]], e.id[2])
    /\ Returned =>
         \A r \in OutputRows :
            \E d \in DocsOf(r.matchId) :
               \E i \in FramesAt(d, r.timestamp), p \in PidsOf(d, puuid) :
                  ReportsPosition(d, i, p)

----------------------------------------------------------------------------
(* main.main after get_user_position has returned: the Time labels and    *)
(* the three tables passed to construct_image.                            *)

mask_10min(t) == t < 600000
mask_20min_strict(t) == t < 1200000
mask_20min(t) == t <= 1200000
mask_20min_plus(t) == t > 1200000

(* table.loc[mask, "Time"] = label: the rows under the mask get the       *)
(* label, the others keep what they have (NaN before the first            *)
(* assignment).                                                           *)
Labelled(rows, mask, label) ==
    { [matchId |-> r.matchId, timestamp |-> r.timestamp, cells |-> r.cells,
       Time |-> IF r.timestamp.int \in mask THEN JStr(label) ELSE r.Time] :
      r \in rows }

(* The timestamps of the index (level 1) that a mask selects.             *)
Index(rows) == { r.timestamp.int : r \in rows }

WithTime(rows, label) == { r \in rows : r.Time = JStr(label) }

MainCall ==
    /\ pc = "done"
    /\ table' = [columns |-> table_position_puuid.columns,
                 rows |-> { [matchId |-> r.matchId, timestamp |-> r.timestamp,
                             cells |-> r.cells, Time |-> NaN] :
                            r \in table_position_puuid.rows }]
    /\ pc' = "label_after_20"
    /\ UNCHANGED <<err, puuid, matchs, timeline, df_participantId, df,
                   df_position, table_position_puuid, shown>>

LabelAfter20 ==
    /\ pc = "label_after_20"
    /\ table' = [columns |-> table.columns \cup {"Time"},
                 rows |-> Labelled(table.rows,
                                  { t \in Index(table.rows) : mask_20min_plus(t) },
                                  "After 20 minutes")]
    /\ pc' = "label_before_20"
    /\ UNCHANGED <<err, puuid, matchs, timeline, df_participantId, df,
                   df_position, table_position_puuid, shown>>

LabelBefore20 ==
    /\ pc = "label_before_20"
    /\ table' = [columns |-> table.columns \cup {"Time"},
                 rows |-> Labelled(table.rows,
                                  { t \in Index(table.rows) : mask_20min(t) },
                                  "Before 20 minutes")]
    /\ pc' = "label_before_10"
    /\ UNCHANGED <<err, puuid, matchs, timeline, df_participantId, df,
                   df_position, table_position_puuid, shown>>

LabelBefore10 ==
    /\ pc = "label_before_10"
    /\ table' = [columns |-> table.columns \cup {"Time"},
                 rows |-> Labelled(table.rows,
                                  { t \in Index(table.rows) : mask_10min(t) },
                                  "Before 10 minutes")]
    /\ pc' = "plot_before_10"
    /\ UNCHANGED <<err, puuid, matchs, timeline, df_participantId, df,
                   df_position, table_position_puuid, shown>>

PlotBefore10 ==
    /\ pc = "plot_before_10"
    /\ shown' = Append(shown, WithTime(table.rows, "Before 10 minutes"))
    /\ pc' = "plot_10_to_20"
    /\ UNCHANGED <<err, puuid, matchs, timeline, df_participantId, df,
                   df_position, table_position_puuid, table>>

PlotBetween10And20 ==
    /\ pc = "plot_10_to_20"
    /\ shown' = Append(shown, WithTime(table.rows, "Before 20 minutes"))
    /\ pc' = "plot_after_20"
    /\ UNCHANGED <<err, puuid, matchs, timeline, df_participantId, df,
                   df_position, table_position_puuid, table>>

PlotAfter20 ==
    /\ pc = "plot_after_20"
    /\ shown' = Append(shown, WithTime(table.rows, "After 20 minutes"))
    /\ pc' = "main_done"
    /\ UNCHANGED <<err, puuid, matchs, timeline, df_participantId, df,
                   df_position, table_position_puuid, table>>

(* The tables get_user_position may hand to main: rows of one match at    *)
(* timestamps around the two thresholds.                                  *)
TimeSamples == {0, 599999, 600000, 600001, 1199999, 1200000, 1200001, 1800000}

ReturnedTables ==
    { [columns |-> {"x", "y"},
       rows |-> { [matchId |-> MatchId(1), timestamp |-> JInt(t),
                   cells |-> [c \in {"x", "y"} |-> norma_x(JInt(t \div 100))]] :
                  t \in ts }] :
      ts \in SUBSET TimeSamples }

InitMain ==
    /\ pc = "done"
    /\ err = "none"
    /\ puuid = "P"
    /\ matchs = <<MatchId(1)>>
    /\ timeline = <<>>
    /\ df_participantId = EmptyTable
    /\ df = EmptyTable
    /\ df_position = EmptyTable
    /\ table_position_puuid \in ReturnedTables
    /\ table = EmptyTable
    /\ shown = <<>>

NextMain ==
    \/ MainCall
    \/ LabelAfter20
    \/ LabelBefore20
    \/ LabelBefore10
    \/ PlotBefore10
    \/ PlotBetween10And20
    \/ PlotAfter20

SpecMain == InitMain /\ [][NextMain]_vars

(* C10: after the three assignments every row has exactly one label,      *)
(* 'Before 10 minutes' iff timestamp < 600000, 'Before 20 minutes' iff    *)
(* 600000 <= timestamp <= 1200000, 'After 20 minutes' iff timestamp >     *)
(* 1200000; the three tables passed to construct_image are pairwise       *)
(* disjoint and together hold every row.                                  *)
C10_TimeBuckets ==
    /\ pc \in {"plot_before_10", "plot_10_to_20", "plot_after_20", "main_done"} =>
         \A r \in table.rows :
            /\ r.Time = JStr("Before 10 minutes") <=> r.timestamp.int < 600000
            /\ r.Time = JStr("Before 20 minutes") <=>
                  (600000 <= r.timestamp.int /\ r.timestamp.int <= 1200000)
            /\ r.Time = JStr("After 20 minutes") <=> r.timestamp.int > 1200000
    /\ pc = "main_done" =>
         /\ Len(shown) = 3
         /\ shown[1] \cap shown[2] = {}
         /\ shown[1] \cap shown[3] = {}
         /\ shown[2] \cap shown[3] = {}
         /\ shown[1] \cup shown[2] \cup shown[3] = table.rows
         /\ { [matchId |-> r.matchId, timestamp |-> r.timestamp] : r \in table.rows }
              = { [matchId |-> r.matchId, timestamp |-> r.timestamp] :
                  r \in table_position_puuid.rows }

(* All three tables are shown non-empty, with rows on both thresholds.    *)
C10_Witness ==
    /\ pc = "main_done"
    /\ \A k \in 1..3 : shown[k] # {}
    /\ \E r \in shown[2] : r.timestamp.int = 600000
    /\ \E r \in shown[2] : r.timestamp.int = 1200000
    /\ \E r \in shown[1] : r.timestamp.int = 599999
    /\ \E r \in shown[3] : r.timestamp.int = 1200001

----------------------------------------------------------------------------
(* The coordinate transform, applied by the last two steps of             *)
(* get_user_position to pivoted tables of raw coordinates.                *)

RawSamples == {0, 335, 1000, 7685, 15035}
RawCells == { JInt(v) : v \in RawSamples } \cup { NaN }

PivotedTables ==
    { [columns |-> {"x", "y"},
       rows |-> { [puuid |-> JStr("P"), matchId |-> MatchId(1),
                   timestamp |-> JInt(Timestamp(i)), cells |-> f[i]] :
                  i \in 1..(MaxFrames + 1) }] :
      f \in [1..(MaxFrames + 1) -> [{"x", "y"} -> RawCells]] }

InitNorma ==
    /\ pc = "loc"
    /\ err = "none"
    /\ puuid = "P"
    /\ matchs = <<MatchId(1)>>
    /\ timeline = <<>>
    /\ df_participantId = EmptyTable
    /\ df = EmptyTable
    /\ df_position \in PivotedTables
    /\ table_position_puuid = EmptyTable
    /\ table = EmptyTable
    /\ shown = <<>>

NextNorma ==
    \/ Loc
    \/ Norma

SpecNorma == InitNorma /\ [][NextNorma]_vars

(* The raw and the returned value of every numeric cell of the call.      *)
Transformed ==
    { [raw |-> q.cells[c].int, out |-> r.cells[c], axis |-> c] :
      <<q, r, c>> \in { w \in df_position.rows \X OutputRows \X {"x", "y"} :
                        /\ w[1].matchId = w[2].matchId
                        /\ w[1].timestamp = w[2].timestamp
                        /\ ~IsNaN(w[1].cells[w[3]]) } }

(* C7: both axes are mapped by output = 10 + (raw - 335) * 800 / 14700:   *)
(* 335 goes to 10 and 15035 to 810 exactly, y is mapped as x is, order is *)
(* preserved and equal raw spacing gives equal output spacing.            *)
C7_Transform ==
    Returned =>
      /\ \A a \in Transformed :
            /\ IsNumber(a.out)
            /\ a.out.num * 14700 = a.out.den * (10 * 14700 + (a.raw - 335) * 800)
            /\ a.raw = 335 => a.out = [num |-> 10, den |-> 1]
            /\ a.raw = 15035 => a.out = [num |-> 810, den |-> 1]
      /\ \A a \in Transformed, b \in Transformed :
            /\ a.raw = b.raw => a.out = b.out
            /\ a.raw < b.raw => Less(a.out, b.out)
      /\ \A a \in Transformed, b \in Transformed :
            \A c \in Transformed, d \in Transformed :
               b.raw - a.raw = d.raw - c.raw
                  => Minus(b.out, a.out) = Minus(d.out, c.out)

(* A call returns 10 for a raw x of 335 and 810 for a raw y of 15035.     *)
C7_Witness ==
    /\ Returned
    /\ \E a \in Transformed :
          a.axis = "x" /\ a.raw = 335 /\ a.out = [num |-> 10, den |-> 1]
    /\ \E a \in Transformed :
          a.axis = "y" /\ a.raw = 15035 /\ a.out = [num |-> 810, den |-> 1]
    /\ \E a \in Transformed, b \in Transformed :
          a.axis = "x" /\ b.axis = "y" /\ a.raw = b.raw

----------------------------------------------------------------------------
(* preprocessing.table_frames called on one match with one frame that     *)
(* holds, beside its timestamp and its event list, one leaf at any path.  *)

MaxDepth == 5

Segments == {"participantFrames", "1", "position", "x", NonWordSegment, ""}

RECURSIVE PathTree(_, _)
PathTree(path, v) ==
    IF Len(path) = 0 THEN Leaf(v)
    ELSE Dict(Head(path) :> PathTree(Tail(path), v))

LeafPaths == SeqsUpTo(Segments, MaxDepth) \ { <<>> }

PathDocuments ==
    { [metadata |-> [matchId |-> MatchId(1)],
       info |-> [participants |->
                    << ("participantId" :> JInt(1)) @@ ("puuid" :> JStr("P")) >>,
                 frames |->
                    << Dict(("timestamp" :> Leaf(JInt(Timestamp(1)))) @@
                            ("events" :> Leaf([obj |-> "events"])) @@
                            PathTree(path, JInt(1)).dict) >>]] :
      path \in LeafPaths }

TableFrames ==
    /\ pc = "table_frames"
    /\ LET r == table_frames(timeline)
       IN  IF IsError(r)
           THEN Raise(r) /\ UNCHANGED df
           ELSE /\ df' = r
                /\ pc' = "table_frames_returned"
                /\ UNCHANGED err
    /\ UNCHANGED <<puuid, matchs, timeline, df_participantId, df_position,
                   table_position_puuid, table, shown>>

InitFrames ==
    /\ pc = "table_frames"
    /\ err = "none"
    /\ puuid = "P"
    /\ matchs = <<MatchId(1)>>
    /\ timeline \in { <<doc>> : doc \in PathDocuments }
    /\ df_participantId = EmptyTable
    /\ df = EmptyTable
    /\ df_position = EmptyTable
    /\ table_position_puuid = EmptyTable
    /\ table = EmptyTable
    /\ shown = <<>>

NextFrames == TableFrames

SpecFrames == InitFrames /\ [][NextFrames]_vars

AllWords(name) == \A i \in 1..Len(name) : IsWord(name[i])
EventsOf(name) == { e \in df.rows : e.id[2] = name }
FramesReturned == pc = "table_frames_returned"

----------------------------------------------------------------------------
(* preprocessing.table_participant_id called on one match whose roster    *)
(* entries may lack participantId or puuid and may give participantId as  *)
(* a number or as a string.                                               *)

LooseEntries ==
    { e \in UNION { [ks -> { JInt(1), JInt(2), JStr("1"), JStr("P"), JStr("Q") }] :
                    ks \in SUBSET {"participantId", "puuid"} } :
      /\ "participantId" \in DOMAIN e =>
            e["participantId"] \in { JInt(1), JInt(2), JStr("1") }
      /\ "puuid" \in DOMAIN e => e["puuid"] \in { JStr("P"), JStr("Q") } }

RosterDocuments ==
    { [metadata |-> [matchId |-> MatchId(1)],
       info |-> [participants |-> r,
                 frames |-> << Frame(1, 1, (1 :> "xy")) >>]] :
      r \in SeqsUpTo(LooseEntries, MaxRoster) }

InitRoster ==
    /\ pc = "get_match_timeline"
    /\ err = "none"
    /\ puuid = "P"
    /\ matchs = <<MatchId(1)>>
    /\ timeline \in { <<doc>> : doc \in RosterDocuments }
    /\ df_participantId = EmptyTable
    /\ df = EmptyTable
    /\ df_position = EmptyTable
    /\ table_position_puuid = EmptyTable
    /\ table = EmptyTable
    /\ shown = <<>>

NextRoster == TableParticipantId

SpecRoster == InitRoster /\ [][NextRoster]_vars

Complete(e) == "participantId" \in DOMAIN e /\ "puuid" \in DOMAIN e
StringForm(c) == IF "str" \in DOMAIN c THEN c.str ELSE ToString(c.int)

(* C6: a roster entry is indexed only if it carries both participantId    *)
(* and puuid; an entry missing either contributes no index entry and does *)
(* not make the call fail, and every complete entry is indexed under the  *)
(* string form of its participantId.  Stated for the rosters that hold a  *)
(* complete entry.                                                        *)
C6_CompleteEntriesOnly ==
    (\E id \in RosterIds(timeline) : Complete(RosterEntry(timeline, id))) =>
       /\ ~Failed
       /\ pc = "flatten" =>
            \A id \in RosterIds(timeline) :
               LET e == RosterEntry(timeline, id)
                   rows == { r \in df_participantId.rows : r.id = id }
               IN  IF Complete(e)
                   THEN \E r \in rows :
                           /\ r.participantId = StringForm(e["participantId"])
                           /\ r.puuid = e["puuid"]
                           /\ r.matchId = timeline[id[1]].metadata.matchId
                   ELSE rows = {}

====
